---- MODULE Spec2Model ----
(***************************************************************************)
(* Model of scripts/update-telegram-images.mjs: the Telegram message       *)
(* updater (send / edit / pin of one photo message per configured chat,    *)
(* with the persisted chat_id -> message_id map) and the Playwright        *)
(* fetcher with retries (fetchWithRetry and the region loop).              *)
(*                                                                         *)
(* Conventions.  A chat id is the string used as the map key, modelled as  *)
(* a sequence of decimal digits; the empty sequence is the empty / missing *)
(* (falsy) chat_id.  A message id is a natural number; 0 stands for every  *)
(* falsy value of the code (undefined, absent field).                      *)
(***************************************************************************)
EXTENDS Integers, Sequences, FiniteSets, TLC

\* ------------------------------------------------------------------ bounds
MaxChats == 2
MaxMsgId == 2

\* Chat ids that occur in CHATS_JSON and in the map file.
ChatIds == {<<1>>, <<2>>}
NoChatId == <<>>
MsgIds == 1..MaxMsgId

VARIABLES
  chats,       \* CHATS_JSON parsed: the list of targets
  messageMap,  \* the in-memory map  chat_id -> { message_id }
  loadedMap,   \* the value loadMessageMap() returned at start-up (never assigned again)
  mapDirty,    \* the mapDirty flag
  results,     \* the results array of the main async function
  i,           \* position of the for..of loop over chats (1-based)
  pc,          \* where the main async function is suspended
  known,       \* `known` of the current iteration
  fallback,    \* TRUE while sendPhoto runs inside editPhoto's 400 branch
  r,           \* the result object being produced for the current target
  pinId,       \* message_id handed to pinMessage
  calls,       \* history: every remote call issued so far, in order, with the
               \* index of the target it was issued for and (send, edit) its reply
  hist,        \* history: per finished target, `known` and the map and dirty flag
               \* before and after the target
  lastReply,   \* the reply of the latest remote call
  written,     \* the contents written to telegram-message-map.json, in order
  exitCode     \* -1 while running, else the process exit status

uvars == <<chats, messageMap, loadedMap, mapDirty, results, i, pc, known,
           fallback, r, pinId, calls, hist, lastReply, written, exitCode>>

\* The fetcher (fetch_regions_playwright, the retry variant).
VARIABLES
  sources,     \* REGION_SOURCES_JSON: region name -> TRUE when its url is non-empty
  regions,     \* the list the region loop runs over
  fi,          \* position of the region loop (1-based)
  fpc,         \* where the fetcher is suspended
  attempt,     \* `attempt` of fetchWithRetry
  lastHtml,    \* `lastHtml` of fetchWithRetry
  fres,        \* `res` of the region loop: what fetchWithRetry returns
  pagesOpen,   \* pages opened with ctx.newPage() and not yet closed
  navs,        \* page.goto calls made for the current source
  sleeps,      \* the backoff sleeps of the current source: <<attempt, ms>>, in order
  outputs,     \* outputs/<region>.html: region name -> content
  fileWrites,  \* region names in the order fs.writeFile was called
  outcomes,    \* how each attempt of the current source ended, in order
  visited      \* region names for which a page was opened

fvars == <<sources, regions, fi, fpc, attempt, lastHtml, fres, pagesOpen, navs,
           sleeps, outputs, fileWrites, outcomes, visited>>

\* The map file round trip (loadMessageMap / saveMessageMap).
VARIABLES
  mapInput,    \* the file content x before the program runs
  mapFile,     \* the current content of telegram-message-map.json
  mapMem,      \* the map in memory
  mpc          \* "m_start", "m_loaded", "m_saved", "m_reloaded"

mvars == <<mapInput, mapFile, mapMem, mpc>>

vars == <<uvars, fvars, mvars>>

\* ------------------------------------------------------------ data shapes
Targets == [chat_id : ChatIds \cup {NoChatId}, image_url : BOOLEAN]

ChatLists == UNION {[1..n -> Targets] : n \in 1..MaxChats}

Records == [message_id : 0..MaxMsgId]

MessageMaps == UNION {[D -> Records] : D \in SUBSET ChatIds}

NoResult == [ok |-> FALSE, reason |-> "none", replaced |-> FALSE,
             not_modified |-> FALSE, message_id |-> 0]

NoReply == [threw |-> FALSE, ok |-> FALSE, error_code |-> 0,
            not_modified_text |-> FALSE, message_id |-> 0]

\* What fetch + res.json() can deliver for sendPhoto: a throw, an error reply,
\* or ok with result.message_id (0: no usable id in the reply).
SendReplies ==
  {[threw |-> TRUE, ok |-> FALSE, error_code |-> 0, not_modified_text |-> FALSE, message_id |-> 0]}
  \cup {[threw |-> FALSE, ok |-> FALSE, error_code |-> c, not_modified_text |-> FALSE, message_id |-> 0]
          : c \in {400, 403}}
  \cup {[threw |-> FALSE, ok |-> TRUE, error_code |-> 0, not_modified_text |-> FALSE, message_id |-> m]
          : m \in 0..MaxMsgId}

\* What fetch + res.json() can deliver for editMessageMedia.
EditReplies ==
  {[threw |-> TRUE, ok |-> FALSE, error_code |-> 0, not_modified_text |-> FALSE, message_id |-> 0]}
  \cup {[threw |-> FALSE, ok |-> TRUE, error_code |-> 0, not_modified_text |-> FALSE, message_id |-> 0]}
  \cup {[threw |-> FALSE, ok |-> FALSE, error_code |-> c, not_modified_text |-> t, message_id |-> 0]
          : c \in {400, 403}, t \in BOOLEAN}

\* What fetch + res.json() can deliver for pinChatMessage.
PinReplies ==
  {[threw |-> TRUE, ok |-> FALSE, error_code |-> 0, not_modified_text |-> FALSE, message_id |-> 0],
   [threw |-> FALSE, ok |-> FALSE, error_code |-> 400, not_modified_text |-> FALSE, message_id |-> 0],
   [threw |-> FALSE, ok |-> TRUE, error_code |-> 0, not_modified_text |-> FALSE, message_id |-> 0]}

\* ------------------------------------------------------- pure functions
\* messageMap[c.chat_id]?.message_id
KnownId(map, cid) == IF cid \in DOMAIN map THEN map[cid].message_id ELSE 0

\* Mutant: only chat_id is required.
InvalidConfig_OnlyChatId(c) == c.chat_id = NoChatId

\* if (!c.chat_id || !c.image_url)
InvalidConfig(c) == c.chat_id = NoChatId \/ ~c.image_url

\* Mutant: the flag is set without comparing the ids.
setMessageId_AlwaysDirty(map, dirty, chatId, messageId) ==
  IF messageId = 0 THEN [map |-> map, dirty |-> dirty]
  ELSE [map |-> (chatId :> [message_id |-> messageId]) @@ map, dirty |-> TRUE]

\* Mutant: the map is rebuilt with the new record alone.
setMessageId_DropsOthers(map, dirty, chatId, messageId) ==
  IF messageId = 0 THEN [map |-> map, dirty |-> dirty]
  ELSE [map |-> (chatId :> [message_id |-> messageId]),
        dirty |-> dirty \/ KnownId(map, chatId) # messageId]

\* setMessageId: the map and the dirty flag after the call.
setMessageId(map, dirty, chatId, messageId) ==
  IF messageId = 0 THEN [map |-> map, dirty |-> dirty]
  ELSE LET m1 == IF chatId \in DOMAIN map THEN map
                 ELSE (chatId :> [message_id |-> 0]) @@ map
       IN IF m1[chatId].message_id # messageId
          THEN [map |-> [m1 EXCEPT ![chatId] = [message_id |-> messageId]],
                dirty |-> TRUE]
          ELSE [map |-> m1, dirty |-> dirty]

\* a.localeCompare(b) < 0 on strings of decimal digits: character by character,
\* a proper prefix first.
RECURSIVE LocaleLess(_, _)
LocaleLess(a, b) ==
  IF a = <<>> THEN b # <<>>
  ELSE IF b = <<>> THEN FALSE
  ELSE IF Head(a) # Head(b) THEN Head(a) < Head(b)
  ELSE LocaleLess(Tail(a), Tail(b))

\* Numeric order of integer-like property names (no leading zero): shorter
\* first, then digit by digit.
NumericLess(a, b) ==
  Len(a) < Len(b) \/ (Len(a) = Len(b) /\ LocaleLess(a, b))

\* Object.keys(map): integer-like keys in ascending numeric order.
RECURSIVE ObjectKeys(_)
ObjectKeys(map) ==
  IF DOMAIN map = {} THEN <<>>
  ELSE LET k == CHOOSE x \in DOMAIN map :
                  \A y \in DOMAIN map \ {x} : NumericLess(x, y)
       IN <<k>> \o ObjectKeys([y \in DOMAIN map \ {k} |-> map[y]])

\* Insertion of k into a sequence sorted by localeCompare.
RECURSIVE InsertKey(_, _)
InsertKey(k, s) ==
  IF s = <<>> THEN <<k>>
  ELSE IF LocaleLess(k, Head(s)) THEN <<k>> \o s
  ELSE <<Head(s)>> \o InsertKey(k, Tail(s))

\* keys.sort((a, b) => a.localeCompare(b))
RECURSIVE SortKeys(_)
SortKeys(s) == IF s = <<>> THEN <<>> ELSE InsertKey(Head(s), SortKeys(Tail(s)))

\* Mutant: the keys are not sorted.
saveMessageMap_NoSort(map) ==
  LET keys == ObjectKeys(map)
  IN [n \in 1..Len(keys) |->
        [key |-> keys[n], val |-> [message_id |-> map[keys[n]].message_id]]]

\* saveMessageMap: the array written to the file, [{ [k]: { message_id } }, ...].
saveMessageMap(map) ==
  LET keys == SortKeys(ObjectKeys(map))
  IN [n \in 1..Len(keys) |->
        [key |-> keys[n], val |-> [message_id |-> map[keys[n]].message_id]]]

\* loadMessageMap on a file holding an array: for each item, the first key k
\* (when non-empty) gets map[k] = item[k]; a later item of the same key wins.
RECURSIVE LoadItems(_, _)
LoadItems(arr, map) ==
  IF arr = <<>> THEN map
  ELSE LET item == Head(arr)
       IN LoadItems(Tail(arr),
                    IF item.key # <<>> THEN (item.key :> item.val) @@ map ELSE map)

loadMessageMap(arr) == LoadItems(arr, <<>>)

\* Mutant: skipped targets count as failures.
Failures_CountsSkipped(res) == {n \in 1..Len(res) : ~res[n].ok}

\* results.filter(r => !r.ok && r.reason !== 'invalid-config')
Failures(res) ==
  {n \in 1..Len(res) : ~res[n].ok /\ res[n].reason # "invalid-config"}

\* --------------------------------------------------------------- updater
UInit ==
  /\ chats \in ChatLists
  /\ messageMap \in MessageMaps
  /\ loadedMap = messageMap
  /\ mapDirty = FALSE
  /\ results = <<>>
  /\ i = 1
  /\ pc = "loop"
  /\ known = 0
  /\ fallback = FALSE
  /\ r = NoResult
  /\ pinId = 0
  /\ calls = <<>>
  /\ hist = <<>>
  /\ lastReply = NoReply
  /\ written = <<>>
  /\ exitCode = -1

\* for (const c of chats): a target without chat_id or image_url is skipped.
SkipInvalid ==
  /\ pc = "loop"
  /\ i <= Len(chats)
  /\ InvalidConfig(chats[i])
  /\ results' = Append(results, [NoResult EXCEPT !.reason = "invalid-config"])
  /\ hist' = Append(hist, [known |-> 0, map0 |-> messageMap, map1 |-> messageMap,
                           dirty0 |-> mapDirty, dirty1 |-> mapDirty])
  /\ i' = i + 1
  /\ UNCHANGED <<chats, messageMap, loadedMap, mapDirty, pc, known, fallback,
                 r, pinId, calls, lastReply, written, exitCode, fvars, mvars>>

\* const known = messageMap[c.chat_id]?.message_id; branch on !known.
Lookup ==
  /\ pc = "loop"
  /\ i <= Len(chats)
  /\ ~InvalidConfig(chats[i])
  /\ known' = KnownId(messageMap, chats[i].chat_id)
  /\ pc' = IF known' = 0 THEN "send" ELSE "edit"
  /\ fallback' = FALSE
  /\ r' = NoResult
  /\ UNCHANGED <<chats, messageMap, loadedMap, mapDirty, results, i, pinId,
                 calls, hist, lastReply, written, exitCode, fvars, mvars>>

\* The result sendPhoto returns for a reply, before pinMessage is awaited.
SendResult(reply, inFallback) ==
  IF ~reply.threw /\ reply.ok
  THEN [ok |-> TRUE, reason |-> "", replaced |-> inFallback,
        not_modified |-> FALSE, message_id |-> reply.message_id]
  ELSE [ok |-> FALSE, reason |-> "", replaced |-> inFallback,
        not_modified |-> FALSE, message_id |-> 0]

\* Mutant: a failed sendPhoto is sent again.
AfterSend_RetriesSend(result) == IF result.ok THEN "pin" ELSE "send"

\* Mutant: pinMessage is awaited whether or not the reply was ok.
AfterSend_AlwaysPin(result) == "pin"

\* sendPhoto after the reply: pinMessage only on the ok path, else the return.
AfterSend(result) == IF result.ok THEN "pin" ELSE "push"

\* sendPhoto: the POST to /sendPhoto and its reply.
SendPhoto ==
  /\ pc = "send"
  /\ \E reply \in SendReplies :
       /\ lastReply' = reply
       /\ calls' = Append(calls, [t |-> i, op |-> "sendPhoto", mid |-> 0, reply |-> reply])
       /\ r' = SendResult(reply, fallback)
       /\ pc' = AfterSend(r')
       /\ pinId' = IF r'.ok THEN reply.message_id ELSE pinId
  /\ UNCHANGED <<chats, messageMap, loadedMap, mapDirty, results, i, known,
                 fallback, hist, written, exitCode, fvars, mvars>>

\* Mutant: every error reply falls back to sendPhoto (no error_code test).
EditClass_AnyErrorSendsNew(reply) ==
  IF reply.threw THEN "network"
  ELSE IF reply.ok THEN "edited"
  ELSE IF reply.error_code = 400 /\ reply.not_modified_text THEN "not_modified"
  ELSE "send_new"

\* Mutant: 'message is not modified' is accepted whatever the error code.
EditClass_AnyCodeNotModified(reply) ==
  IF reply.threw THEN "network"
  ELSE IF reply.ok THEN "edited"
  ELSE IF reply.not_modified_text THEN "not_modified"
  ELSE IF reply.error_code = 400 THEN "send_new"
  ELSE "error"

\* Mutant: no special case for 'message is not modified'.
EditClass_NoNotModified(reply) ==
  IF reply.threw THEN "network"
  ELSE IF reply.ok THEN "edited"
  ELSE IF reply.error_code = 400 THEN "send_new"
  ELSE "error"

\* How editPhoto classifies the reply of editMessageMedia.
EditClass(reply) ==
  IF reply.threw THEN "network"
  ELSE IF reply.ok THEN "edited"
  ELSE IF reply.error_code = 400 /\ reply.not_modified_text THEN "not_modified"
  ELSE IF reply.error_code = 400 THEN "send_new"
  ELSE "error"

\* editPhoto: the POST to /editMessageMedia and its reply.
EditPhoto ==
  /\ pc = "edit"
  /\ \E reply \in EditReplies :
       /\ lastReply' = reply
       /\ calls' = Append(calls, [t |-> i, op |-> "editMessageMedia", mid |-> known,
                               reply |-> reply])
       /\ LET cls == EditClass(reply) IN
          CASE cls = "edited" ->
                 /\ r' = [NoResult EXCEPT !.ok = TRUE, !.reason = ""]
                 /\ pc' = "pin" /\ pinId' = known /\ fallback' = fallback
            [] cls = "not_modified" ->
                 /\ r' = [NoResult EXCEPT !.ok = TRUE, !.reason = "", !.not_modified = TRUE]
                 /\ pc' = "pin" /\ pinId' = known /\ fallback' = fallback
            [] cls = "send_new" ->
                 /\ r' = r
                 /\ pc' = "send" /\ pinId' = pinId /\ fallback' = TRUE
            [] OTHER ->
                 /\ r' = [NoResult EXCEPT !.reason = ""]
                 /\ pc' = "push" /\ pinId' = pinId /\ fallback' = fallback
  /\ UNCHANGED <<chats, messageMap, loadedMap, mapDirty, results, i, known,
                 hist, written, exitCode, fvars, mvars>>

\* Mutant: the result of pinMessage becomes the target's result.
PinMessage_ResultFromPin ==
  /\ pc = "pin"
  /\ \E reply \in PinReplies :
       /\ lastReply' = reply
       /\ calls' = Append(calls, [t |-> i, op |-> "pinChatMessage", mid |-> pinId,
                               reply |-> NoReply])
       /\ r' = [r EXCEPT !.ok = ~reply.threw /\ reply.ok]
  /\ pc' = "push"
  /\ UNCHANGED <<chats, messageMap, loadedMap, mapDirty, results, i, known,
                 fallback, pinId, hist, written, exitCode, fvars, mvars>>

\* pinMessage: the POST to /pinChatMessage; its outcome is only logged.
PinMessage ==
  /\ pc = "pin"
  /\ \E reply \in PinReplies :
       /\ lastReply' = reply
       /\ calls' = Append(calls, [t |-> i, op |-> "pinChatMessage", mid |-> pinId,
                               reply |-> NoReply])
  /\ pc' = "push"
  /\ UNCHANGED <<chats, messageMap, loadedMap, mapDirty, results, i, known,
                 fallback, r, pinId, hist, written, exitCode, fvars, mvars>>

\* Mutant: the id is stored only for a replaced message.
StoresId_OnlyReplaced(res, knownId) == res.ok /\ res.replaced /\ res.message_id # 0

\* Whether the main loop calls setMessageId for result res of a target.
StoresId(res, knownId) ==
  IF knownId = 0
  THEN res.ok /\ res.message_id # 0
  ELSE res.ok /\ res.replaced /\ res.message_id # 0

\* Back in the main loop: setMessageId where due, results.push(r), the pause.
PushResult ==
  /\ pc = "push"
  /\ LET upd == IF StoresId(r, known)
                THEN setMessageId(messageMap, mapDirty, chats[i].chat_id, r.message_id)
                ELSE [map |-> messageMap, dirty |-> mapDirty]
     IN /\ messageMap' = upd.map
        /\ mapDirty' = upd.dirty
  /\ results' = Append(results, r)
  /\ hist' = Append(hist, [known |-> known, map0 |-> messageMap, map1 |-> messageMap',
                           dirty0 |-> mapDirty, dirty1 |-> mapDirty'])
  /\ i' = i + 1
  /\ pc' = "loop"
  /\ UNCHANGED <<chats, loadedMap, known, fallback, r, pinId, calls, lastReply,
                 written, exitCode, fvars, mvars>>

\* process.exit(10) when failures.length, else the normal end (status 0).
ExitStatus(res) == IF Failures(res) # {} THEN 10 ELSE 0

\* After the loop: the save when mapDirty (writeFileSync may fail), then the
\* exit status.
EndOfRun ==
  /\ pc = "loop"
  /\ i > Len(chats)
  /\ IF mapDirty
     THEN \E wrote \in BOOLEAN :
            written' = IF wrote THEN Append(written, saveMessageMap(messageMap))
                       ELSE written
     ELSE written' = written
  /\ exitCode' = ExitStatus(results)
  /\ pc' = "done"
  /\ UNCHANGED <<chats, messageMap, loadedMap, mapDirty, results, i, known,
                 fallback, r, pinId, calls, hist, lastReply, fvars, mvars>>

UNext ==
  \/ SkipInvalid
  \/ Lookup
  \/ SendPhoto
  \/ EditPhoto
  \/ PinMessage
  \/ PushResult
  \/ EndOfRun


\* --------------------------------------------------------------- fetcher
\* Program constants (their defaults) and the two markers' lengths.
MAX_RETRY == 3
MIN_BYTES == 1500
BACKOFF_MS == 2000
JitterBound == 400
FactLen == 19
PresetLen == 21
CommentLen == 14

\* Markup is modelled by what the code reads of it: whether it contains
\* 'DisconSchedule.fact', whether it contains 'DisconSchedule.preset', and how
\* much other text it holds, in blocks of PadBytes characters.  `comment` marks
\* the literal '<!-- empty -->'.
PadBytes == 500
MaxPad == 3

Htmls == [fact : BOOLEAN, preset : BOOLEAN, pad : 0..MaxPad, comment : {FALSE}]

EmptyHtml == [fact |-> FALSE, preset |-> FALSE, pad |-> 0, comment |-> FALSE]

EmptyComment == [fact |-> FALSE, preset |-> FALSE, pad |-> 0, comment |-> TRUE]

\* html.length
HtmlLength(h) ==
  (IF h.fact THEN FactLen ELSE 0) + (IF h.preset THEN PresetLen ELSE 0)
  + h.pad * PadBytes + (IF h.comment THEN CommentLen ELSE 0)

\* Mutant: one marker is enough.
isSuspectHtml_EitherMarker(html) ==
  IF HtmlLength(html) = 0 THEN TRUE
  ELSE HtmlLength(html) < MIN_BYTES \/ ~(html.fact \/ html.preset)

\* isSuspectHtml
isSuspectHtml(html) ==
  IF HtmlLength(html) = 0 THEN TRUE
  ELSE LET len == HtmlLength(html)
           hasMarkers == html.fact /\ html.preset
       IN len < MIN_BYTES \/ ~hasMarkers

RegionNames == {"kyiv", "odesa"}

Perms(D) ==
  {s \in [1..Cardinality(D) -> D] : \A x \in D : \E n \in DOMAIN s : s[n] = x}

NoRes == [ok |-> FALSE, html |-> EmptyHtml, bytes |-> 0, attempt |-> 0]

Jitters == {0, JitterBound - 1}

FInit ==
  /\ sources \in UNION {[D -> BOOLEAN] : D \in SUBSET RegionNames}
  /\ regions \in Perms(DOMAIN sources) \cup {<<o>> : o \in RegionNames}
  /\ fi = 1
  /\ fpc = "f_loop"
  /\ attempt = 0
  /\ lastHtml = EmptyHtml
  /\ fres = NoRes
  /\ pagesOpen = 0
  /\ navs = 0
  /\ sleeps = <<>>
  /\ outputs = <<>>
  /\ fileWrites = <<>>
  /\ outcomes = <<>>
  /\ visited = {}

\* Mutant: a region listed in the sources counts as configured.
HasUrl_AnyListed(src, name) == name \in DOMAIN src

\* const url = sources[r]; if (!url)
HasUrl(src, name) == name \in DOMAIN src /\ src[name]

\* for (const r of regions): no URL configured, continue.
FSkip ==
  /\ fpc = "f_loop"
  /\ fi <= Len(regions)
  /\ ~HasUrl(sources, regions[fi])
  /\ fi' = fi + 1
  /\ UNCHANGED <<sources, regions, fpc, attempt, lastHtml, fres, pagesOpen, navs,
                 sleeps, outputs, fileWrites, outcomes, visited,
                 uvars, mvars>>

\* Mutant: the loop stops one attempt early.
MoreAttempts_OneFewer(att) == att + 1 < MAX_RETRY

\* for (...; attempt <= MAX_RETRY; attempt++): is there an attempt after att?
MoreAttempts(att) == att + 1 <= MAX_RETRY

\* fetchWithRetry is entered: lastHtml = '', attempt = 1.
FBegin ==
  /\ fpc = "f_loop"
  /\ fi <= Len(regions)
  /\ HasUrl(sources, regions[fi])
  /\ lastHtml' = EmptyHtml
  /\ attempt' = 1
  /\ fres' = NoRes
  /\ navs' = 0
  /\ sleeps' = <<>>
  /\ outcomes' = <<>>
  /\ fpc' = IF MoreAttempts(0) THEN "f_newpage" ELSE "f_write"
  /\ UNCHANGED <<sources, regions, fi, pagesOpen, outputs, fileWrites, visited,
                 uvars, mvars>>

\* const page = await ctx.newPage()
FNewPage ==
  /\ fpc = "f_newpage"
  /\ pagesOpen' = pagesOpen + 1
  /\ visited' = visited \cup {regions[fi]}
  /\ fpc' = "f_goto"
  /\ UNCHANGED <<sources, regions, fi, attempt, lastHtml, fres, navs, sleeps,
                 outputs, fileWrites, outcomes,
                 uvars, mvars>>

\* Mutant: the backoff also follows the last attempt.
AfterFailedAttempt_AlwaysSleep(att) == "f_sleep"

\* Mutant: the last failed attempt leaves the loop without its finally block.
AfterFailedAttempt_SkipsFinally(att) == IF att < MAX_RETRY THEN "f_sleep" ELSE "f_write"

\* Mutant: the last attempt's failure is not caught and ends the program.
AfterFailedAttempt_Uncaught(att) == IF att < MAX_RETRY THEN "f_sleep" ELSE "f_crashed"

\* Where an attempt goes after its content was rejected or it threw.
AfterFailedAttempt(att) == IF att < MAX_RETRY THEN "f_sleep" ELSE "f_close"

\* page.goto, waitForTimeout, page.content and the classification; goto (or
\* content) may throw.
FGoto ==
  /\ fpc = "f_goto"
  /\ navs' = navs + 1
  /\ \/ \E html \in Htmls :
          /\ lastHtml' = html
          /\ IF ~isSuspectHtml(html)
             THEN /\ fres' = [ok |-> TRUE, html |-> html,
                             bytes |-> HtmlLength(html), attempt |-> attempt]
                  /\ outcomes' = Append(outcomes, "accepted")
                  /\ fpc' = "f_close"
             ELSE /\ fres' = fres
                  /\ outcomes' = Append(outcomes, "suspect")
                  /\ fpc' = AfterFailedAttempt(attempt)
     \/ /\ lastHtml' = lastHtml
        /\ fres' = fres
        /\ outcomes' = Append(outcomes, "threw")
        /\ fpc' = AfterFailedAttempt(attempt)
  /\ UNCHANGED <<sources, regions, fi, attempt, pagesOpen, sleeps, outputs,
                 fileWrites, visited,
                 uvars, mvars>>

\* await sleep(BACKOFF_MS * attempt + jitter)
FSleep ==
  /\ fpc = "f_sleep"
  /\ \E jitter \in Jitters :
       sleeps' = Append(sleeps, <<attempt, BACKOFF_MS * attempt + jitter>>)
  /\ fpc' = "f_close"
  /\ UNCHANGED <<sources, regions, fi, attempt, lastHtml, fres, pagesOpen, navs,
                 outputs, fileWrites, outcomes, visited,
                 uvars, mvars>>

\* finally { await page.close() }, then the return, the next attempt, or the
\* return after the loop.
FClose ==
  /\ fpc = "f_close"
  /\ pagesOpen' = pagesOpen - 1
  /\ IF fres.ok
     THEN /\ fpc' = "f_write"
          /\ UNCHANGED <<attempt, fres>>
     ELSE IF MoreAttempts(attempt)
     THEN /\ fpc' = "f_newpage"
          /\ attempt' = attempt + 1
          /\ fres' = fres
     ELSE /\ fpc' = "f_write"
          /\ attempt' = attempt + 1
          /\ fres' = [ok |-> FALSE, html |-> lastHtml,
                     bytes |-> HtmlLength(lastHtml), attempt |-> MAX_RETRY]
  /\ UNCHANGED <<sources, regions, fi, lastHtml, navs, sleeps, outputs,
                 fileWrites, outcomes, visited,
                 uvars, mvars>>

\* Mutant: the placeholder is written whatever was fetched.
WrittenContent_AlwaysComment(result) == EmptyComment

\* Mutant: no placeholder, the result's markup is written as it is.
WrittenContent_NoPlaceholder(result) == result.html

\* What the region loop writes for a result of fetchWithRetry.
WrittenContent(result) ==
  IF result.ok THEN result.html
  ELSE IF HtmlLength(result.html) = 0 THEN EmptyComment ELSE result.html

\* await fs.writeFile(outFile, ...)
FWrite ==
  /\ fpc = "f_write"
  /\ outputs' = (regions[fi] :> WrittenContent(fres)) @@ outputs
  /\ fileWrites' = Append(fileWrites, regions[fi])
  /\ fi' = fi + 1
  /\ fpc' = "f_loop"
  /\ UNCHANGED <<sources, regions, attempt, lastHtml, fres, pagesOpen, navs,
                 sleeps, outcomes, visited,
                 uvars, mvars>>

\* await browser.close()
FEnd ==
  /\ fpc = "f_loop"
  /\ fi > Len(regions)
  /\ fpc' = "f_done"
  /\ UNCHANGED <<sources, regions, fi, attempt, lastHtml, fres, pagesOpen, navs,
                 sleeps, outputs, fileWrites, outcomes, visited,
                 uvars, mvars>>

FNext ==
  \/ FSkip
  \/ FBegin
  \/ FNewPage
  \/ FGoto
  \/ FSleep
  \/ FClose
  \/ FWrite
  \/ FEnd

\* ------------------------------------------ fetcher, the variant without retry
\* The same start, in the variant that fetches each region once.
SInit ==
  /\ sources \in UNION {[D -> BOOLEAN] : D \in SUBSET RegionNames}
  /\ regions \in Perms(DOMAIN sources) \cup {<<o>> : o \in RegionNames}
  /\ fi = 1
  /\ fpc = "s_loop"
  /\ attempt = 0
  /\ lastHtml = EmptyHtml
  /\ fres = NoRes
  /\ pagesOpen = 0
  /\ navs = 0
  /\ sleeps = <<>>
  /\ outputs = <<>>
  /\ fileWrites = <<>>
  /\ outcomes = <<>>
  /\ visited = {}

\* for (const r of regions): no URL configured, continue.
SSkip ==
  /\ fpc = "s_loop"
  /\ fi <= Len(regions)
  /\ ~HasUrl(sources, regions[fi])
  /\ fi' = fi + 1
  /\ UNCHANGED <<sources, regions, fpc, attempt, lastHtml, fres, pagesOpen, navs,
                 sleeps, outputs, fileWrites, outcomes, visited, uvars, mvars>>

\* const page = await context.newPage()
SNewPage ==
  /\ fpc = "s_loop"
  /\ fi <= Len(regions)
  /\ HasUrl(sources, regions[fi])
  /\ pagesOpen' = pagesOpen + 1
  /\ visited' = visited \cup {regions[fi]}
  /\ navs' = 0
  /\ fpc' = "s_goto"
  /\ UNCHANGED <<sources, regions, fi, attempt, lastHtml, fres, sleeps, outputs,
                 fileWrites, outcomes, uvars, mvars>>

\* page.goto and page.content; either may throw, which the catch logs.
SGoto ==
  /\ fpc = "s_goto"
  /\ navs' = navs + 1
  /\ \/ \E html \in Htmls :
          /\ lastHtml' = html
          /\ fpc' = "s_write"
     \/ /\ lastHtml' = lastHtml
        /\ fpc' = "s_close"
  /\ UNCHANGED <<sources, regions, fi, attempt, fres, pagesOpen, sleeps, outputs,
                 fileWrites, outcomes, visited, uvars, mvars>>

\* await fs.writeFile(outFile, html), inside the try block.
SWrite ==
  /\ fpc = "s_write"
  /\ outputs' = (regions[fi] :> lastHtml) @@ outputs
  /\ fileWrites' = Append(fileWrites, regions[fi])
  /\ fpc' = "s_close"
  /\ UNCHANGED <<sources, regions, fi, attempt, lastHtml, fres, pagesOpen, navs,
                 sleeps, outcomes, visited, uvars, mvars>>

\* finally { await page.close() }, then the next region.
SClose ==
  /\ fpc = "s_close"
  /\ pagesOpen' = pagesOpen - 1
  /\ fi' = fi + 1
  /\ fpc' = "s_loop"
  /\ UNCHANGED <<sources, regions, attempt, lastHtml, fres, navs, sleeps, outputs,
                 fileWrites, outcomes, visited, uvars, mvars>>

\* await browser.close()
SEnd ==
  /\ fpc = "s_loop"
  /\ fi > Len(regions)
  /\ fpc' = "s_done"
  /\ UNCHANGED <<sources, regions, fi, attempt, lastHtml, fres, pagesOpen, navs,
                 sleeps, outputs, fileWrites, outcomes, visited, uvars, mvars>>

SNext ==
  \/ SSkip
  \/ SNewPage
  \/ SGoto
  \/ SWrite
  \/ SClose
  \/ SEnd

\* ------------------------------------------------ programs that do not run
UIdle ==
  /\ chats = <<>>
  /\ messageMap = <<>>
  /\ loadedMap = <<>>
  /\ mapDirty = FALSE
  /\ results = <<>>
  /\ i = 1
  /\ pc = "off"
  /\ known = 0
  /\ fallback = FALSE
  /\ r = NoResult
  /\ pinId = 0
  /\ calls = <<>>
  /\ hist = <<>>
  /\ lastReply = NoReply
  /\ written = <<>>
  /\ exitCode = -1

FIdle ==
  /\ sources = <<>>
  /\ regions = <<>>
  /\ fi = 1
  /\ fpc = "off"
  /\ attempt = 0
  /\ lastHtml = EmptyHtml
  /\ fres = NoRes
  /\ pagesOpen = 0
  /\ navs = 0
  /\ sleeps = <<>>
  /\ outputs = <<>>
  /\ fileWrites = <<>>
  /\ outcomes = <<>>
  /\ visited = {}

MIdle ==
  /\ mapInput = <<>>
  /\ mapFile = <<>>
  /\ mapMem = <<>>
  /\ mpc = "off"

Init == UInit /\ FIdle /\ MIdle

Spec == Init /\ [][UNext]_vars

FetchInit == FInit /\ UIdle /\ MIdle

SpecFetch == FetchInit /\ [][FNext]_vars

\* The fetcher in either of its two variants.
SimpleInit == SInit /\ UIdle /\ MIdle

BothInit == FetchInit \/ SimpleInit

BothNext == FNext \/ SNext

SpecFetchBoth == BothInit /\ [][BothNext]_vars

\* ------------------------------------------------------ map file round trip
MaxFileLen == 3

MapKeys == {<<1>>, <<2>>, <<1, 0>>}

\* Well-formed items: { "<chat id>": { "message_id": n } }
MapItems == [key : MapKeys, val : [message_id : MsgIds]]

MapFiles == UNION {[1..n -> MapItems] : n \in 1..MaxFileLen}

MInit ==
  /\ mapInput \in MapFiles
  /\ mapFile = mapInput
  /\ mapMem = <<>>
  /\ mpc = "m_start"

\* const messageMap = loadMessageMap()
MLoad ==
  /\ mpc = "m_start"
  /\ mapMem' = loadMessageMap(mapFile)
  /\ mpc' = "m_loaded"
  /\ UNCHANGED <<mapInput, mapFile, uvars, fvars>>

\* saveMessageMap(messageMap)
MSave ==
  /\ mpc = "m_loaded"
  /\ mapFile' = saveMessageMap(mapMem)
  /\ mpc' = "m_saved"
  /\ UNCHANGED <<mapInput, mapMem, uvars, fvars>>

\* The next run's loadMessageMap()
MReload ==
  /\ mpc = "m_saved"
  /\ mapMem' = loadMessageMap(mapFile)
  /\ mpc' = "m_reloaded"
  /\ UNCHANGED <<mapInput, mapFile, uvars, fvars>>

MNext ==
  \/ MLoad
  \/ MSave
  \/ MReload

MapInit == MInit /\ UIdle /\ FIdle

SpecMap == MapInit /\ [][MNext]_vars

\* ------------------------------------------- either program, run to its end
AnyInit == Init \/ FetchInit

AnyNext == UNext \/ FNext

\* Each awaited call returns or fails, so the program always takes its next step.
FairSpec == AnyInit /\ [][AnyNext]_vars /\ WF_vars(AnyNext)

\* The updater alone, each awaited call returning or failing.
FairUpdater == Init /\ [][UNext]_vars /\ WF_vars(UNext)

\* ================================================================ properties
\* Vocabulary of the properties, read off the histories.
HasBoth(c) == c.chat_id # NoChatId /\ c.image_url

IdIn(map, cid) == IF cid \in DOMAIN map THEN map[cid].message_id ELSE 0

Finished == 1..Len(results)

CallsOf(t, op) == {n \in DOMAIN calls : calls[n].t = t /\ calls[n].op = op}

Sends(t) == Cardinality(CallsOf(t, "sendPhoto"))

Edits(t) == Cardinality(CallsOf(t, "editMessageMedia"))

Pins(t) == Cardinality(CallsOf(t, "pinChatMessage"))

ReplyOk(reply) == ~reply.threw /\ reply.ok

\* error code 400 whose description is not 'message is not modified'
QualifiesForSend(reply) ==
  ~reply.threw /\ ~reply.ok /\ reply.error_code = 400 /\ ~reply.not_modified_text

\* error code 400 whose description contains 'message is not modified'
IsNotModified(reply) ==
  ~reply.threw /\ ~reply.ok /\ reply.error_code = 400 /\ reply.not_modified_text

\* a non-400 error reply or a network error
IsOtherFailure(reply) ==
  reply.threw \/ (~reply.ok /\ reply.error_code # 400)

\* The replies the edit calls of target t got.
EditRepliesOf(t) == {calls[n].reply : n \in CallsOf(t, "editMessageMedia")}

\* ---------------------------------------------------------------------- C1
\* C1 as claimed: every finished valid target whose chat_id has no message_id
\* in the LOADED map got exactly one sendPhoto and no editMessageMedia, and
\* after a successful send the map held the id the send returned.
C1_AsClaimed ==
  \A t \in Finished :
    (HasBoth(chats[t]) /\ IdIn(loadedMap, chats[t].chat_id) = 0) =>
      /\ Sends(t) = 1
      /\ Edits(t) = 0
      /\ \A n \in CallsOf(t, "sendPhoto") :
           ReplyOk(calls[n].reply) =>
             IdIn(hist[t].map1, chats[t].chat_id) = calls[n].reply.message_id

\* C1 amended: every finished valid target whose chat_id has no message_id in
\* the in-memory map when the target is reached got exactly one sendPhoto and no
\* editMessageMedia, and after a successful send the map right after the target
\* holds for that chat_id the message_id the send returned.
C1_SendForUnknownChat ==
  \A t \in Finished :
    (HasBoth(chats[t]) /\ IdIn(hist[t].map0, chats[t].chat_id) = 0) =>
      /\ Sends(t) = 1
      /\ Edits(t) = 0
      /\ \A n \in CallsOf(t, "sendPhoto") :
           ReplyOk(calls[n].reply) =>
             IdIn(hist[t].map1, chats[t].chat_id) = calls[n].reply.message_id

C1_Witness ==
  /\ pc = "done"
  /\ \E t \in Finished :
       /\ HasBoth(chats[t])
       /\ chats[t].chat_id \notin DOMAIN hist[t].map0
       /\ \E n \in CallsOf(t, "sendPhoto") :
            /\ ReplyOk(calls[n].reply)
            /\ calls[n].reply.message_id = MaxMsgId
            /\ IdIn(hist[t].map1, chats[t].chat_id) = MaxMsgId

\* ---------------------------------------------------------------------- C2
\* C2: every finished valid target whose chat_id has a message_id in the map got
\* exactly one editMessageMedia (for that id), before any sendPhoto of the
\* target; a sendPhoto follows exactly when the edit's reply was error code 400
\* without 'message is not modified', and at no time does a sendPhoto of a
\* target follow an edit of it that was answered otherwise.
C2_EditBeforeSend ==
  /\ \A t \in Finished :
       (HasBoth(chats[t]) /\ IdIn(hist[t].map0, chats[t].chat_id) # 0) =>
         /\ Edits(t) = 1
         /\ Sends(t) <= 1
         /\ \A e \in CallsOf(t, "editMessageMedia") :
              /\ calls[e].mid = IdIn(hist[t].map0, chats[t].chat_id)
              /\ (Sends(t) = 1 <=> QualifiesForSend(calls[e].reply))
  /\ \A e \in DOMAIN calls, n \in DOMAIN calls :
       (/\ calls[e].op = "editMessageMedia"
        /\ calls[n].op = "sendPhoto"
        /\ calls[e].t = calls[n].t) =>
         (e < n /\ QualifiesForSend(calls[e].reply))

C2_Witness ==
  /\ pc = "done"
  /\ \E t \in Finished :
       /\ Edits(t) = 1 /\ Sends(t) = 1
       /\ (\E rp \in EditRepliesOf(t) : QualifiesForSend(rp))
  /\ \E t \in Finished :
       /\ Edits(t) = 1 /\ Sends(t) = 0
       /\ (\E rp \in EditRepliesOf(t) : IsOtherFailure(rp))

\* ---------------------------------------------------------------------- C3
\* C3 as claimed: every finished target with chat_id and image_url got exactly
\* one send-or-edit call and exactly one pin call.
C3_AsClaimed ==
  \A t \in Finished :
    HasBoth(chats[t]) => (Sends(t) + Edits(t) = 1 /\ Pins(t) = 1)

\* C3 amended: every finished target with chat_id and image_url got one
\* send-or-edit call, or two (the edit, then one send) exactly when the edit was
\* answered with the fall-back-to-send class, and got one pin call when its
\* result is ok and none when it is not.
C3_AttemptsPerTarget ==
  \A t \in Finished :
    HasBoth(chats[t]) =>
      /\ Sends(t) + Edits(t) \in {1, 2}
      /\ (Sends(t) + Edits(t) = 2 <=> (\E rp \in EditRepliesOf(t) : QualifiesForSend(rp)))
      /\ Pins(t) = IF results[t].ok THEN 1 ELSE 0

C3_Witness ==
  /\ pc = "done"
  /\ \E t \in Finished :
       HasBoth(chats[t]) /\ Sends(t) + Edits(t) = 2 /\ Pins(t) = 1
  /\ \E t \in Finished :
       HasBoth(chats[t]) /\ Sends(t) + Edits(t) = 1 /\ Pins(t) = 0

\* ---------------------------------------------------------------------- C4
\* The id of the message a target ended with: the one its send returned, else
\* the one its edit addressed.
ResultingId(t) ==
  IF Sends(t) > 0
  THEN calls[CHOOSE n \in CallsOf(t, "sendPhoto") : TRUE].reply.message_id
  ELSE calls[CHOOSE n \in CallsOf(t, "editMessageMedia") : TRUE].mid

\* C4: a finished target whose send or edit succeeded (an edit answered 'not
\* modified' included) got exactly one pinChatMessage, issued after its send and
\* edit calls, for the resulting message id; a target whose send or edit failed
\* got none; and once pinMessage has replied, whatever the reply, the target's
\* result is ok.
C4_PinAfterSuccess ==
  /\ \A t \in Finished :
       HasBoth(chats[t]) =>
         /\ results[t].ok <=>
              \/ \E n \in CallsOf(t, "sendPhoto") : ReplyOk(calls[n].reply)
              \/ (\E rp \in EditRepliesOf(t) : ReplyOk(rp))
              \/ (\E rp \in EditRepliesOf(t) : IsNotModified(rp))
         /\ results[t].ok =>
              /\ Pins(t) = 1
              /\ \A n \in CallsOf(t, "pinChatMessage") :
                   /\ calls[n].mid = ResultingId(t)
                   /\ \A m \in DOMAIN calls :
                        (calls[m].t = t /\ m # n) => m < n
         /\ ~results[t].ok => Pins(t) = 0
  /\ (pc = "push" /\ calls # <<>> /\ calls[Len(calls)].op = "pinChatMessage") => r.ok

C4_Witness ==
  /\ pc = "done"
  /\ calls # <<>>
  /\ calls[Len(calls)].op = "pinChatMessage"
  /\ lastReply.threw
  /\ results[Len(results)].ok
  /\ results[Len(results)].not_modified

\* ---------------------------------------------------------------------- C5
\* C5: a finished target whose edit was answered by a non-400 error reply or ended
\* in a network error has a failed result that counts for the exit status, got
\* no sendPhoto and no pinChatMessage, and left the map and the dirty flag as
\* they were.
C5_OtherEditFailure ==
  \A t \in Finished :
    (\E rp \in EditRepliesOf(t) : IsOtherFailure(rp)) =>
      /\ ~results[t].ok
      /\ results[t].reason # "invalid-config"
      /\ Sends(t) = 0
      /\ Pins(t) = 0
      /\ hist[t].map1 = hist[t].map0
      /\ hist[t].dirty1 = hist[t].dirty0
      /\ pc = "done" => exitCode = 10

C5_Witness ==
  /\ pc = "done"
  /\ exitCode = 10
  /\ \E t \in Finished :
       /\ \E n \in CallsOf(t, "editMessageMedia") :
            ~calls[n].reply.threw /\ calls[n].reply.error_code = 403
                                  /\ calls[n].reply.not_modified_text
       /\ ~results[t].ok
  /\ \E t \in Finished :
       \E n \in CallsOf(t, "editMessageMedia") : calls[n].reply.threw

\* ---------------------------------------------------------------------- C6
\* C6: a finished target whose edit was answered with error code 400 and
\* 'message is not modified' has an ok result, got no sendPhoto, left the map
\* as it was, and the run does not end with the failure code on its account:
\* a run that ends with code 10 has a failed valid target that was not
\* answered so.
C6_NotModifiedIsSuccess ==
  /\ \A t \in Finished :
       (\E rp \in EditRepliesOf(t) : IsNotModified(rp)) =>
         /\ results[t].ok
         /\ Sends(t) = 0
         /\ hist[t].map1 = hist[t].map0
         /\ hist[t].dirty1 = hist[t].dirty0
  /\ (pc = "done" /\ exitCode = 10) =>
       \E t \in Finished :
         HasBoth(chats[t]) /\ ~results[t].ok /\ ~(\E rp \in EditRepliesOf(t) : IsNotModified(rp))

C6_Witness ==
  /\ pc = "done"
  /\ exitCode = 0
  /\ \A t \in Finished : (\E rp \in EditRepliesOf(t) : IsNotModified(rp))
  /\ Len(results) = MaxChats

\* ---------------------------------------------------------------------- C7
\* Some record's message_id changed while target t was processed.
RecordChanged(t) ==
  \E c \in ChatIds : IdIn(hist[t].map1, c) # IdIn(hist[t].map0, c)

\* C7: the map file is written at most once, not before the end of the run, and
\* only in a run in which some record's message_id changed.
C7_SingleWriteWhenChanged ==
  /\ Len(written) <= 1
  /\ pc # "done" => written = <<>>
  /\ written # <<>> => \E t \in Finished : RecordChanged(t)

C7_Witness ==
  /\ pc = "done"
  /\ Len(written) = 1
  /\ messageMap = loadedMap

\* ---------------------------------------------------------------------- C8
\* C8: the run ends with exit code 10 exactly when some target that has chat_id
\* and image_url ended with a failed result, and with status 0 otherwise; no
\* exit code is set before the end.
C8_ExitCode ==
  /\ pc # "done" => exitCode = -1
  /\ pc = "done" =>
       /\ Len(results) = Len(chats)
       /\ exitCode \in {0, 10}
       /\ exitCode = 10 <=> \E t \in Finished : HasBoth(chats[t]) /\ ~results[t].ok

C8_Witness ==
  /\ pc = "done"
  /\ exitCode = 0
  /\ \E t \in Finished : ~HasBoth(chats[t]) /\ ~results[t].ok
  /\ \E t \in Finished : HasBoth(chats[t])

\* ---------------------------------------------------------------------- C9
\* The file's keys are distinct and in ascending localeCompare order.
SortedByKey(file) ==
  \A n \in 1..(Len(file) - 1) : LocaleLess(file[n].key, file[n + 1].key)

\* The file holds exactly the records of the mapping, one item per key.
Represents(file, map) ==
  /\ Len(file) = Cardinality(DOMAIN map)
  /\ {file[n].key : n \in DOMAIN file} = DOMAIN map
  /\ \A n \in DOMAIN file : map[file[n].key] = file[n].val

\* No two items of the file have the same key.
DistinctKeys(file) ==
  \A n \in DOMAIN file, m \in DOMAIN file : file[n].key = file[m].key => n = m

\* C9 as claimed: for every well-formed non-empty array x of single-key objects
\* (one per chat id), the file saved from the loaded map is x again.
C9_AsClaimed ==
  (mpc \in {"m_saved", "m_reloaded"} /\ DistinctKeys(mapInput)) => mapFile = mapInput

\* C9 amended: the saved file holds exactly the mapping that was in memory, in
\* ascending key order; the mapping loaded from a saved file is exactly the one
\* saved; and save(load(x)) = x for every well-formed non-empty x whose keys are
\* distinct and in ascending localeCompare order.
C9_RoundTrip ==
  /\ mpc \in {"m_saved", "m_reloaded"} =>
       /\ Represents(mapFile, mapMem)
       /\ SortedByKey(mapFile)
       /\ SortedByKey(mapInput) => mapFile = mapInput
  /\ mpc = "m_loaded" =>
       \A n \in DOMAIN mapInput :
         /\ mapInput[n].key \in DOMAIN mapMem
         /\ (\A m \in DOMAIN mapInput : m > n => mapInput[m].key # mapInput[n].key)
              => mapMem[mapInput[n].key] = mapInput[n].val

C9_Witness ==
  /\ mpc = "m_reloaded"
  /\ Len(mapInput) = MaxFileLen
  /\ SortedByKey(mapInput)
  /\ mapFile = mapInput
  /\ Represents(mapInput, mapMem)

\* --------------------------------------------------------------------- C10
\* The updater has handled every target and passed its end-of-run step.
UpdaterEnded ==
  /\ pc = "done"
  /\ Len(results) = Len(chats)
  /\ \A t \in Finished : HasBoth(chats[t]) => Sends(t) + Edits(t) >= 1
  /\ exitCode \in {0, 10}

\* The fetcher has handled every region and closed the browser.
FetcherEnded ==
  /\ fpc = "f_done"
  /\ fi = Len(regions) + 1
  /\ \A n \in DOMAIN regions :
       (regions[n] \in DOMAIN sources /\ sources[regions[n]]) =>
         regions[n] \in DOMAIN outputs

\* C10: whatever error replies, network errors or navigation errors occur, the
\* run goes on to every later target (source) and reaches its end.
C10_BatchRunsToEnd == <>(UpdaterEnded \/ FetcherEnded)

C10_Witness ==
  /\ UpdaterEnded
  /\ Len(chats) = MaxChats
  /\ HasBoth(chats[1])
  /\ \E n \in CallsOf(1, "sendPhoto") : calls[n].reply.threw
  /\ ~results[1].ok
  /\ Sends(Len(chats)) = 1

\* --------------------------------------------------------------------- C11
\* The successful sends to chat c so far; those that returned a message id.
OkSends(c) ==
  {n \in DOMAIN calls : /\ calls[n].op = "sendPhoto"
                        /\ chats[calls[n].t].chat_id = c
                        /\ ReplyOk(calls[n].reply)}

OkSendsWithId(c) == {n \in OkSends(c) : calls[n].reply.message_id # 0}

Latest(S) == CHOOSE n \in S : \A m \in S : m <= n

\* Every record the run loaded is in the map and, for a chat outside Sent, is
\* the loaded record, also in every content written to the file.
LoadedRecordsKept(Sent) ==
  /\ DOMAIN loadedMap \subseteq DOMAIN messageMap
  /\ \A c \in DOMAIN loadedMap :
       c \notin Sent =>
         /\ messageMap[c] = loadedMap[c]
         /\ \A w \in DOMAIN written :
              \E n \in DOMAIN written[w] :
                written[w][n].key = c /\ written[w][n].val = loadedMap[c]
  /\ \A w \in DOMAIN written : DistinctKeys(written[w])

SentTo == {c \in ChatIds : OkSends(c) # {}}

SentToWithId == {c \in ChatIds : OkSendsWithId(c) # {}}

\* C11 as claimed (read between two targets and at the end of the run): the
\* record of a chat holds the id returned by the most recent successful send to
\* it in this run, or the loaded value when there was none, and the records of
\* chats without a successful send are the loaded ones, in memory and on file.
C11_AsClaimed ==
  pc \in {"loop", "done"} =>
    /\ \A c \in ChatIds :
         IdIn(messageMap, c) =
           IF OkSends(c) = {} THEN IdIn(loadedMap, c)
           ELSE calls[Latest(OkSends(c))].reply.message_id
    /\ LoadedRecordsKept(SentTo)

\* C11 amended: between two targets and at the end of the run, the record of a
\* chat holds the id returned by the most recent successful send to it that
\* returned a message id, or the loaded value when there was none; no record is
\* deleted, and the records of chats without such a send are the loaded ones, in
\* memory and in the file written at the end.
C11_RecordIsLatestSentId ==
  /\ pc \in {"loop", "done"} =>
       /\ \A c \in ChatIds :
            IdIn(messageMap, c) =
              IF OkSendsWithId(c) = {} THEN IdIn(loadedMap, c)
              ELSE calls[Latest(OkSendsWithId(c))].reply.message_id
       /\ LoadedRecordsKept(SentToWithId)
  /\ DOMAIN loadedMap \subseteq DOMAIN messageMap

C11_Witness ==
  /\ pc = "done"
  /\ Len(written) = 1
  /\ \E c \in ChatIds :
       /\ OkSendsWithId(c) # {}
       /\ IdIn(messageMap, c) # IdIn(loadedMap, c)
  /\ \E c \in DOMAIN loadedMap :
       /\ OkSendsWithId(c) = {}
       /\ loadedMap[c].message_id = MaxMsgId
       /\ \E n \in DOMAIN written[1] :
            written[1][n].key = c /\ written[1][n].val = loadedMap[c]

\* --------------------------------------------------------------------- C12
\* C12: a finished target without chat_id or without image_url got no sendPhoto,
\* editMessageMedia or pinChatMessage call, left the map and the dirty flag as
\* they were, and has the result ok:false with reason 'invalid-config'; no
\* other target has that reason, and a run whose only failed results are of
\* such targets does not end with the failure code.
C12_InvalidTargetSkipped ==
  /\ \A t \in Finished :
       IF HasBoth(chats[t])
       THEN results[t].reason # "invalid-config"
       ELSE /\ \A n \in DOMAIN calls : calls[n].t # t
            /\ hist[t].map1 = hist[t].map0
            /\ hist[t].dirty1 = hist[t].dirty0
            /\ ~results[t].ok
            /\ results[t].reason = "invalid-config"
  /\ (pc = "done" /\ \A t \in Finished : results[t].ok \/ ~HasBoth(chats[t]))
       => exitCode = 0

C12_Witness ==
  /\ pc = "done"
  /\ exitCode = 0
  /\ Len(chats) = MaxChats
  /\ chats[1].chat_id # NoChatId
  /\ ~chats[1].image_url
  /\ results[1].reason = "invalid-config"
  /\ calls # <<>>

\* ------------------------------------------------- vocabulary of the fetcher
Last(seq) == seq[Len(seq)]

\* The n-th region of the run has a non-empty URL in the sources.
Configured(n) == regions[n] \in DOMAIN sources /\ sources[regions[n]]

\* How many times outputs/<name>.html was written.
WritesOf(name) == Cardinality({n \in DOMAIN fileWrites : fileWrites[n] = name})

\* An attempt of the current source is under way (its page is open).
InAttempt == fpc \in {"f_goto", "f_sleep", "f_close"}

\* fetchWithRetry has been entered for the current source and has not returned.
InFetch == fpc \in {"f_newpage", "f_goto", "f_sleep", "f_close"}

\* fetchWithRetry has returned for the source whose attempts `outcomes` lists,
\* and its file has been written.
SourceDone == fpc \in {"f_loop", "f_done"} /\ outcomes # <<>>

\* The heuristic as the specification words it.
SuspectAsStated(h) ==
  \/ HtmlLength(h) = 0
  \/ HtmlLength(h) < MIN_BYTES
  \/ ~h.fact
  \/ ~h.preset

AllOutcomes(kind) == \A n \in DOMAIN outcomes : outcomes[n] = kind

\* Attempt k of the current source was followed by a backoff sleep.
Slept(k) == \E j \in DOMAIN sleeps : sleeps[j][1] = k

\* --------------------------------------------------------------------- C13
\* C13: fetchWithRetry returns without an accepted attempt only after exactly
\* MAX_RETRY attempts, so a source whose every attempt returned suspect content
\* has had MAX_RETRY page.goto calls when it returns, and no file is written for
\* the source before that.
C13_ExhaustsAllAttempts ==
  /\ (fpc = "f_write" /\ ~fres.ok) =>
       /\ Len(outcomes) = MAX_RETRY
       /\ navs = MAX_RETRY
       /\ fres.attempt = MAX_RETRY
  /\ (fpc = "f_write" /\ outcomes # <<>> /\ AllOutcomes("suspect")) => ~fres.ok
  /\ (InFetch \/ fpc = "f_write") => WritesOf(regions[fi]) = 0

C13_Witness ==
  /\ fpc = "f_write"
  /\ outcomes = <<"suspect", "suspect", "suspect">>
  /\ lastHtml = [fact |-> FALSE, preset |-> FALSE, pad |-> 2, comment |-> FALSE]
  /\ HtmlLength(lastHtml) = 1000
  /\ HtmlLength(lastHtml) < MIN_BYTES
  /\ navs = 3

\* --------------------------------------------------------------------- C14
\* C14: content that passes the heuristic ends the attempts of its source: the
\* accepted attempt is the last one, the result is ok with exactly that content
\* and that attempt's number, no backoff sleep follows it, and the file of the
\* source holds exactly that content.
C14_FirstPassAccepted ==
  /\ \A n \in DOMAIN outcomes : outcomes[n] = "accepted" => n = Len(outcomes)
  /\ ~SuspectAsStated(lastHtml) => (outcomes # <<>> /\ Last(outcomes) = "accepted")
  /\ (outcomes # <<>> /\ Last(outcomes) = "accepted") =>
       /\ fres.ok
       /\ fres.html = lastHtml
       /\ ~SuspectAsStated(fres.html)
       /\ fres.bytes = HtmlLength(lastHtml)
       /\ fres.attempt = Len(outcomes)
       /\ navs = Len(outcomes)
       /\ ~Slept(Len(outcomes))
       /\ fpc \in {"f_close", "f_write", "f_loop", "f_done"}
       /\ SourceDone =>
            /\ fileWrites # <<>>
            /\ outputs[Last(fileWrites)] = fres.html
  /\ (SourceDone /\ fres.ok) => Last(outcomes) = "accepted"

C14_Witness ==
  /\ SourceDone
  /\ outcomes = <<"suspect", "accepted">>
  /\ fres.ok
  /\ fres.attempt = 2
  /\ Len(sleeps) = 1
  /\ outputs[Last(fileWrites)] = lastHtml

\* --------------------------------------------------------------------- C15
\* Every region already handled that has a URL has exactly one write of its
\* file, and no file is written twice.
OneFilePerSource ==
  /\ \A n \in DOMAIN regions :
       (n < fi /\ Configured(n)) =>
         WritesOf(regions[n]) = 1 /\ regions[n] \in DOMAIN outputs
  /\ \A n \in DOMAIN regions : WritesOf(regions[n]) <= 1
  /\ fpc # "f_crashed"

\* C15 as claimed: one file per source with a URL, and on exhaustion the file
\* holds the last-obtained content, or is empty if every attempt threw.
C15_AsClaimed ==
  /\ OneFilePerSource
  /\ (SourceDone /\ Last(outcomes) # "accepted") =>
       /\ AllOutcomes("threw") => outputs[Last(fileWrites)] = EmptyHtml
       /\ HtmlLength(lastHtml) > 0 => outputs[Last(fileWrites)] = lastHtml

\* C15 amended: one file per source with a URL, whatever the attempts gave; on
\* exhaustion the file holds the last-obtained content when that is non-empty,
\* and the text '<!-- empty -->' when every attempt threw or the last content
\* obtained was the empty string; the fetcher goes on to the next source.
C15_OneFileWhatever ==
  /\ OneFilePerSource
  /\ (SourceDone /\ Last(outcomes) # "accepted") =>
       /\ ~fres.ok
       /\ AllOutcomes("threw") => lastHtml = EmptyHtml
       /\ outputs[Last(fileWrites)] =
            IF HtmlLength(lastHtml) = 0 THEN EmptyComment ELSE lastHtml
       /\ HtmlLength(outputs[Last(fileWrites)]) > 0

C15_Witness ==
  /\ fpc = "f_done"
  /\ Len(regions) = 2
  /\ Len(fileWrites) = 2
  /\ outcomes = <<"threw", "threw", "threw">>
  /\ outputs[regions[2]] = EmptyComment
  /\ HtmlLength(outputs[regions[1]]) > 0
  /\ SuspectAsStated(outputs[regions[1]])

\* --------------------------------------------------------------------- C16
\* C16: in both variants of the fetcher a region without a URL in the sources
\* (listed with an empty URL, or named alone and absent from the sources) gets
\* no page, no navigation and no output file, and the regions after it are
\* still handled.
C16_NoUrlNoFetch ==
  /\ \A n \in DOMAIN regions :
       ~Configured(n) =>
         /\ regions[n] \notin visited
         /\ regions[n] \notin DOMAIN outputs
         /\ WritesOf(regions[n]) = 0
  /\ fpc \notin {"f_loop", "s_loop", "f_done", "s_done"} =>
       (fi \in DOMAIN regions /\ Configured(fi))
  /\ fpc \in {"f_done", "s_done"} =>
       \A n \in DOMAIN regions : Configured(n) => regions[n] \in visited

C16_Witness ==
  /\ fpc = "f_done"
  /\ Len(regions) = 2
  /\ ~Configured(1)
  /\ Configured(2)
  /\ visited = {regions[2]}
  /\ DOMAIN outputs = {regions[2]}

\* The same case in the variant without retry.
C16_WitnessNoRetry ==
  /\ fpc = "s_done"
  /\ Len(regions) = 2
  /\ ~Configured(1)
  /\ Configured(2)
  /\ visited = {regions[2]}
  /\ DOMAIN outputs = {regions[2]}

\* --------------------------------------------------------------------- C17
\* C17: a source gets at most MAX_RETRY attempts; attempt k is followed by a
\* backoff sleep exactly when it was rejected or threw and k < MAX_RETRY, the
\* sleep lasting BACKOFF_MS * k plus a jitter in [0, 400); nothing is slept
\* after the last attempt, and a throwing attempt is retried like a rejected one.
C17_RetryAndBackoff ==
  /\ Len(outcomes) <= MAX_RETRY
  /\ navs = Len(outcomes)
  /\ attempt <= MAX_RETRY + 1
  /\ InAttempt => attempt <= MAX_RETRY
  /\ \A j \in DOMAIN sleeps :
       /\ sleeps[j][1] = j
       /\ j \in DOMAIN outcomes
       /\ outcomes[j] \in {"suspect", "threw"}
       /\ j < MAX_RETRY
       /\ sleeps[j][2] - BACKOFF_MS * j \in 0..(JitterBound - 1)
  /\ \A k \in DOMAIN outcomes :
       (k < Len(outcomes) \/ fpc \in {"f_newpage", "f_write", "f_loop", "f_done"}) =>
         (Slept(k) <=> (outcomes[k] \in {"suspect", "threw"} /\ k < MAX_RETRY))
  /\ (fpc = "f_newpage" /\ outcomes # <<>>) =>
       /\ Last(outcomes) \in {"suspect", "threw"}
       /\ attempt = Len(outcomes) + 1

C17_Witness ==
  /\ fpc = "f_write"
  /\ outcomes = <<"suspect", "threw", "threw">>
  /\ Len(sleeps) = 2
  /\ sleeps[1][2] = BACKOFF_MS
  /\ sleeps[2][2] = 2 * BACKOFF_MS + JitterBound - 1

\* --------------------------------------------------------------------- C18
\* C18: in both variants at most one page is open at any time; a page is open
\* only between newPage and the finally block of the same attempt, so it is
\* closed before the next one is opened, before fetchWithRetry returns (after
\* an accepted, a rejected or a throwing attempt) and when the browser closes.
C18_OnePageAtATime ==
  /\ pagesOpen \in {0, 1}
  /\ pagesOpen = 1 <=>
       fpc \in {"f_goto", "f_sleep", "f_close", "s_goto", "s_write", "s_close"}
  /\ fpc \in {"f_newpage", "f_write", "f_loop", "f_done", "s_loop", "s_done"} =>
       pagesOpen = 0

C18_Witness ==
  /\ fpc = "f_write"
  /\ pagesOpen = 0
  /\ outcomes = <<"threw", "suspect", "accepted">>

\* --------------------------------------------------------------------- C19
\* C19: isSuspectHtml is true exactly when the markup is empty, or shorter than
\* MIN_BYTES, or lacks 'DisconSchedule.fact', or lacks 'DisconSchedule.preset';
\* and an attempt that obtained markup is rejected exactly in those cases.
C19_SuspectExactly ==
  /\ \A h \in Htmls : isSuspectHtml(h) <=> SuspectAsStated(h)
  /\ (outcomes # <<>> /\ Last(outcomes) # "threw") =>
       (Last(outcomes) = "suspect" <=> SuspectAsStated(lastHtml))

C19_Witness ==
  /\ fpc = "f_sleep"
  /\ Last(outcomes) = "suspect"
  /\ lastHtml.fact
  /\ ~lastHtml.preset
  /\ HtmlLength(lastHtml) >= MIN_BYTES

\* --------------------------------------------------------------------- C20
\* C20: for one target at most one editMessageMedia, one sendPhoto and one
\* pinChatMessage are issued, an edit never follows a send of the same target,
\* so at most 3n calls are issued for n targets; and the run reaches its exit
\* status.
C20_BoundedCallsThenExit ==
  /\ [](/\ \A t \in 1..Len(chats) : Edits(t) <= 1 /\ Sends(t) <= 1 /\ Pins(t) <= 1
        /\ \A n \in DOMAIN calls :
             /\ calls[n].t \in 1..Len(chats)
             /\ calls[n].op = "editMessageMedia" =>
                  \A m \in 1..(n - 1) : calls[m].t # calls[n].t
        /\ Len(calls) <= 3 * Len(chats))
  /\ <>(pc = "done" /\ exitCode \in {0, 10})

C20_Witness ==
  /\ pc = "done"
  /\ Len(chats) = MaxChats
  /\ Len(calls) = 3 * Len(chats)

====
